---- MODULE Spec2Model ----
(***************************************************************************)
(* The job lifecycle of src/classes/job.ts: one job of one queue, held in  *)
(* a remote store; two processes that each own an in-memory Job object (a  *)
(* snapshot), the worker w1 that takes the job from the queue and a        *)
(* process w2 that holds the job by its id; one client awaiting the job's *)
(* end with waitUntilFinished; and one caller asking for the job's state.  *)
(* The store's scripts (Scripts), the                                      *)
(* backoff calculator (Backoffs) and the notification emitter              *)
(* (QueueEvents) are collaborators of job.ts whose code is not part of the *)
(* examined file; they are modelled from the specification's description   *)
(* of them.                                                                *)
(***************************************************************************)
EXTENDS Integers, Sequences, FiniteSets, TLC

----------------------------------------------------------------------------
(* Bounds of the model *)

MaxCalls == 3
MaxAttempts == 2
MaxDelay == 1
MaxStackTraceLimit == 1

Workers == {"w1", "w2"}
NoOwner == "none"
LockArgs == {"omitted", "true", "false"}
Colls == {"wait", "paused", "active", "delayed", "completed", "failed"}
STOP == -1

----------------------------------------------------------------------------
(* JavaScript values and their JSON wire form.  A value is a tagged record;*)
(* the wire form is the string JSON.stringify produces for it.             *)

JsNum(s) == [t |-> "number", v |-> s]
JsStr(s) == [t |-> "string", v |-> s]
JsObj(s) == [t |-> "object", v |-> s]
JsNull == [t |-> "null", v |-> ""]
JsUndefined == [t |-> "undefined", v |-> ""]
\* an object that refers to itself: JSON.stringify throws a TypeError on it
JsCircular == [t |-> "circular", v |-> ""]

ReturnValues == {JsNum("0"), JsStr("ok")}
OneReturn == {JsStr("ok")}
Unserializable == {JsCircular}
DataValues == {JsObj("{\"to\":\"a\"}"), JsObj("{\"to\":\"b\"}")}
ProgressValues == {JsNum("0"), JsNum("50"), JsObj("{\"pct\":50}")}
JsonValues ==
  ReturnValues \cup DataValues \cup ProgressValues \cup {JsNull, JsObj("{}")}

Falsy(x) == \/ x.t \in {"null", "undefined"}
            \/ x = JsNum("0")
            \/ x = JsStr("")

\* x || y
OrElse(x, y) == IF Falsy(x) THEN y ELSE x

\* JSON.stringify throws on x
stringifyThrows(x) == x.t = "circular"

JSONstringify(x) ==
  CASE x.t = "number" -> x.v
    [] x.t = "string" -> "\"" \o x.v \o "\""
    [] x.t = "object" -> x.v
    [] x.t = "null" -> "null"
    [] OTHER -> "undefined"

\* JSON.parse of a string: the decoded value, or ok = FALSE where it throws
\* a SyntaxError (errorObject under tryCatch)
JSONparse(s) ==
  IF \E x \in JsonValues : JSONstringify(x) = s
  THEN [ok |-> TRUE, val |-> CHOOSE x \in JsonValues : JSONstringify(x) = s]
  ELSE [ok |-> FALSE, val |-> JsUndefined]

\* the string a value that is no string is turned into where one is expected
StringOf(x) ==
  CASE x.t = "number" -> x.v
    [] x.t = "string" -> x.v
    [] x.t = "null" -> "null"
    [] x.t = "undefined" -> "undefined"
    [] OTHER -> "[object Object]"

\* decimal form of the small integers the store holds
NumStr(n) == <<"0", "1", "2", "3", "4", "5", "6", "7", "8", "9">>[n + 1]

\* parseInt(s || 0)
parseInt(s) ==
  IF \E n \in 0..9 : NumStr(n) = s
  THEN CHOOSE n \in 0..9 : NumStr(n) = s
  ELSE 0

\* the Error objects a processor fails with: err.message and err.stack
Errors == {"e1", "e2"}
OneError == {"e1"}
ErrMessage(err) == "failed:" \o err
ErrStack(err) == "at:" \o err

RECURSIVE JoinQuoted(_)
JoinQuoted(q) ==
  IF q = <<>> THEN ""
  ELSE IF Len(q) = 1 THEN "\"" \o q[1] \o "\""
  ELSE "\"" \o q[1] \o "\"," \o JoinQuoted(Tail(q))

\* JSON.stringify of a string array
StringifyTraces(q) == "[" \o JoinQuoted(q) \o "]"

Stacks == {ErrStack(err) : err \in Errors}

RECURSIVE SeqsUpTo(_, _)
SeqsUpTo(S, n) ==
  IF n = 0 THEN {<<>>}
  ELSE LET shorter == SeqsUpTo(S, n - 1)
       IN shorter \cup {Append(q, e) : q \in {p \in shorter : Len(p) = n - 1}, e \in S}

TraceSeqs == SeqsUpTo(Stacks, MaxCalls)

getTraces(stacktrace) ==
  IF \E q \in TraceSeqs : StringifyTraces(q) = stacktrace
  THEN CHOOSE q \in TraceSeqs : StringifyTraces(q) = stacktrace
  ELSE <<>>

\* getReturnValue that hands the stored string back undecoded
getReturnValue_raw(value) == JsStr(value)

getReturnValue(value) ==
  LET parsed == JSONparse(value)
  IN IF parsed.ok THEN parsed.val ELSE JsUndefined

----------------------------------------------------------------------------
(* Job options *)

NoBackoff == [type |-> "none", delay |-> 0]

BackoffPolicies ==
  {NoBackoff}
    \cup {[type |-> "fixed", delay |-> d] : d \in 1..MaxDelay}
    \cup {[type |-> "exponential", delay |-> 1]}
    \cup {[type |-> "stopper", delay |-> 0]}

\* the defaults Object.assign merges the caller's options over
DefaultOpts ==
  [attempts |-> 0, backoff |-> NoBackoff, stackTraceLimit |-> 0,
   removeOnComplete |-> FALSE, removeOnFail |-> FALSE]

JobOptions ==
  {o \in [attempts : 0..MaxAttempts, backoff : BackoffPolicies,
          stackTraceLimit : 0..MaxStackTraceLimit,
          removeOnComplete : BOOLEAN, removeOnFail : BOOLEAN] :
     \* a retention policy is tried on a job that does not retry, a trace cap
     \* on one that does, one of them at a time
     /\ (o.removeOnComplete \/ o.removeOnFail) => (o.attempts = 0 /\ o.backoff = NoBackoff)
     /\ ~(o.removeOnComplete /\ o.removeOnFail)
     /\ (o.stackTraceLimit > 0)
          => /\ ~(o.removeOnComplete \/ o.removeOnFail)
             /\ o.attempts >= 2
             /\ o.backoff = [type |-> "fixed", delay |-> 1]
     /\ (o.attempts = 0) => (o.backoff = NoBackoff)}

\* options of a job that keeps retrying, with a cap on the traces that
\* MaxCalls failures exceed
TraceOptions ==
  {[DefaultOpts EXCEPT !.attempts = MaxCalls + 1, !.stackTraceLimit = limit] :
     limit \in 1..(MaxCalls - 1)}

BoolStr(b) == IF b THEN "true" ELSE "false"

\* JSON.stringify(this.opts): the defaults' keys first, then the caller's; a
\* backoff that was not given (undefined) is left out
stringifyOpts(o) ==
  "{\"attempts\":" \o NumStr(o.attempts) \o ",\"delay\":0"
    \o (IF o.backoff = NoBackoff THEN ""
        ELSE ",\"backoff\":{\"type\":\"" \o o.backoff.type \o "\",\"delay\":"
               \o NumStr(o.backoff.delay) \o "}")
    \o ",\"stackTraceLimit\":" \o NumStr(o.stackTraceLimit)
    \o ",\"removeOnComplete\":" \o BoolStr(o.removeOnComplete)
    \o ",\"removeOnFail\":" \o BoolStr(o.removeOnFail) \o "}"

\* the options a job is created with, each with its wire form
OptsWire == {<<stringifyOpts(o), o>> : o \in JobOptions \cup TraceOptions}

\* JSON.parse(json.opts || '{}') and the constructor's merge over the defaults
parseOpts(s) ==
  IF \E p \in OptsWire : p[1] = s
  THEN (CHOOSE p \in OptsWire : p[1] = s)[2]
  ELSE DefaultOpts

RECURSIVE Pow2(_)
Pow2(n) == IF n <= 0 THEN 1 ELSE 2 * Pow2(n - 1)

\* the registered custom strategies of the queue (settings.backoffStrategies)
CustomStrategies == {"stopper"}

\* Backoffs.calculate(backoff, attemptsMade, customStrategies, err)
calculate(backoff, attemptsMade, err) ==
  CASE backoff.type = "none" -> 0
    [] backoff.type = "fixed" -> backoff.delay
    [] backoff.type = "exponential" -> backoff.delay * Pow2(attemptsMade - 1)
    [] backoff.type \in CustomStrategies -> STOP
    [] OTHER -> STOP

----------------------------------------------------------------------------
(* The Job object in a process's memory *)

NullTraces == [t |-> "null", v |-> <<>>]
Traces(q) == [t |-> "array", v |-> q]

\* new Job(queue, name, data, opts): the field initialisers and the constructor
Job(data, opts) ==
  [has |-> TRUE, data |-> data, opts |-> opts, progress |-> JsNum("0"),
   attemptsMade |-> 0, stacktrace |-> NullTraces, failedReason |-> JsUndefined,
   returnvalue |-> JsNull, discarded |-> FALSE]

\* What a process keeps of a Job object between its calls: the fields a
\* later call on the object reads.  data, progress, failedReason and
\* returnvalue are written by calls but read back only from the store.
held(j) ==
  [has |-> j.has, opts |-> j.opts, attemptsMade |-> j.attemptsMade,
   stacktrace |-> j.stacktrace, discarded |-> j.discarded]

\* the variable of a process that holds no Job object
NoJob == held([Job(JsNull, DefaultOpts) EXCEPT !.has = FALSE])

----------------------------------------------------------------------------
(* The hash of the job's key in the store: the set of fields it has, and   *)
(* the string held under each.  The empty hash is the absent key.          *)

EmptyHash ==
  [has |-> {}, data |-> "", opts |-> "", progress |-> JsUndefined,
   attemptsMade |-> "", stacktrace |-> "", failedReason |-> "",
   returnvalue |-> ""]

hset(h, field, value) == [h EXCEPT !.has = @ \cup {field}, ![field] = value]

hget(h, field) == IF field \in h.has THEN h[field] ELSE ""

isEmpty(h) == h.has = {}

\* the JobJson of the object: progress goes in as the value it is, the
\* failedReason of an object that has none is undefined
toJSON(j) ==
  [has |-> {"data", "opts", "progress", "attemptsMade", "stacktrace",
            "returnvalue"}
             \cup (IF j.failedReason.t = "undefined" THEN {} ELSE {"failedReason"}),
   data |-> JSONstringify(OrElse(j.data, JsObj("{}"))),
   opts |-> stringifyOpts(j.opts),
   progress |-> j.progress,
   attemptsMade |-> NumStr(j.attemptsMade),
   failedReason |-> JSONstringify(j.failedReason),
   stacktrace |-> IF j.stacktrace.t = "null" THEN "null"
                  ELSE StringifyTraces(j.stacktrace.v),
   returnvalue |-> JSONstringify(j.returnvalue)]

\* JSON.parse(json.progress || 0): the argument is read as a string
progressOf(json) ==
  JSONparse(StringOf(IF "progress" \in json.has
                     THEN OrElse(json.progress, JsNum("0"))
                     ELSE JsNum("0")))

\* fromJSON throws: the parse of progress is not under tryCatch
fromJSONThrows(json) == ~progressOf(json).ok

fromJSON(json) ==
  LET data == JSONparse(IF hget(json, "data") = "" THEN "{}" ELSE json.data).val
      opts == parseOpts(hget(json, "opts"))
      job == Job(data, opts)
  IN [job EXCEPT
        !.progress = progressOf(json).val,
        !.failedReason = IF "failedReason" \in json.has
                         THEN JsStr(json.failedReason) ELSE JsUndefined,
        !.attemptsMade = parseInt(hget(json, "attemptsMade")),
        !.stacktrace = Traces(getTraces(hget(json, "stacktrace"))),
        !.returnvalue = IF "returnvalue" \in json.has
                        THEN getReturnValue(json.returnvalue) ELSE JsNull]

----------------------------------------------------------------------------
(* The store and its scripts.  A script runs as one indivisible step and   *)
(* yields a result code with the store it leaves.                          *)

NoEvents == <<>>

EmptyStore ==
  [ids |-> 0, rec |-> EmptyHash, coll |-> {}, score |-> 0, lock |-> NoOwner,
   events |-> NoEvents]

\* Scripts.addJob: assigns the id, writes the record, puts the job in wait
addJob(s, json) ==
  [s EXCEPT !.ids = @ + 1,
            !.rec = [has |-> {"data", "opts", "progress", "attemptsMade",
                              "stacktrace", "returnvalue"},
                     data |-> json.data, opts |-> json.opts,
                     progress |-> JsStr(StringOf(json.progress)),
                     attemptsMade |-> json.attemptsMade,
                     stacktrace |-> json.stacktrace, failedReason |-> "",
                     returnvalue |-> json.returnvalue],
            !.coll = {"wait"}]

\* the check every script that moves a job out of active makes first
finishedCode(s, token, ignoreLock) ==
  IF isEmpty(s.rec) THEN -1
  ELSE IF ~ignoreLock /\ s.lock # token THEN -2
  ELSE IF "active" \notin s.coll THEN -3
  ELSE 0

\* moveToFinished script: active -> completed | failed, retention, notification
moveToFinished(s, target, field, value, remove, token, ignoreLock) ==
  LET code == finishedCode(s, token, ignoreLock)
  IN IF code < 0 THEN [code |-> code, store |-> s]
     ELSE [code |-> 0,
           store |-> [s EXCEPT
                        !.coll = IF remove THEN {} ELSE {target},
                        !.rec = IF remove THEN EmptyHash ELSE hset(@, field, value),
                        !.lock = NoOwner,
                        !.events = Append(@, [kind |-> target, payload |-> value])]]

\* moveToDelayed script: active -> delayed at the given timestamp
moveToDelayed(s, timestamp, token, ignoreLock) ==
  LET code == finishedCode(s, token, ignoreLock)
  IN IF code < 0 THEN [code |-> code, store |-> s]
     ELSE [code |-> 0,
           store |-> [s EXCEPT !.coll = {"delayed"}, !.score = timestamp,
                               !.lock = NoOwner]]

\* retryJob script: active -> wait
retryJob(s, token, ignoreLock) ==
  LET code == finishedCode(s, token, ignoreLock)
  IN IF code < 0 THEN [code |-> code, store |-> s]
     ELSE [code |-> 0,
           store |-> [s EXCEPT !.coll = {"wait"}, !.lock = NoOwner]]

\* Scripts.remove: 1 when the job was removed, 0 when it could not be
removeJob(s, token) ==
  IF isEmpty(s.rec) /\ s.coll = {} THEN [code |-> 0, store |-> s]
  ELSE IF s.lock \notin {NoOwner, token} THEN [code |-> 0, store |-> s]
  ELSE [code |-> 1,
        store |-> [s EXCEPT !.rec = EmptyHash, !.coll = {}, !.lock = NoOwner]]

\* Scripts.isFinished: 0 not finished, 1 completed, 2 failed
isFinished(s) ==
  IF "completed" \in s.coll THEN 1
  ELSE IF "failed" \in s.coll THEN 2
  ELSE 0

----------------------------------------------------------------------------
(* The membership queries of a Job object, answered by the store *)

isInZSet(s, set) == set \in s.coll
isInList(s, list) == list \in s.coll

isCompleted(s) == isInZSet(s, "completed")
isFailed(s) == isInZSet(s, "failed")
isDelayed(s) == isInZSet(s, "delayed")
isActive(s) == isInList(s, "active")

\* isWaiting asks the store twice, for wait and then, wait not having the
\* job, for paused: first and second are the store as each of the two reads
\* finds it
isWaiting(first, second) == isInList(first, "wait") \/ isInList(second, "paused")

----------------------------------------------------------------------------
(* State *)

VARIABLES
  store,    \* the remote store: the job's hash, collections, lock, notifications in flight
  mem,      \* mem[w]: the Job object process w holds
  calls,    \* number of moveToFailed calls made so far
  now,      \* Date.now()
  closing,  \* queue.closing
  waiter,   \* the pending waitUntilFinished call
  thrown,   \* the error the call just made ended with, where the caller keeps it
  round,    \* a Job object taken through toJSON and fromJSON
  asked     \* a caller putting the membership queries to the store, one by one

vars == <<store, mem, calls, now, closing, waiter, thrown, round, asked>>

\* the errors a call on the Job object ends with
NoError == [kind |-> "none", code |-> 0, jobId |-> 0, command |-> ""]
TypeError == [kind |-> "TypeError", code |-> 0, jobId |-> 0, command |-> ""]
SyntaxError == [kind |-> "SyntaxError", code |-> 0, jobId |-> 0, command |-> ""]
RemovalFailed(jobId) ==
  [kind |-> "RemovalFailed", code |-> 0, jobId |-> jobId, command |-> ""]

\* Scripts.finishedErrors(code, jobId, command)
finishedErrors(code, jobId, command) ==
  [kind |-> CASE code = -1 -> "NotFound"
              [] code = -2 -> "LockMismatch"
              [] OTHER -> "NotActive",
   code |-> code, jobId |-> jobId, command |-> command]

NoOutcome == [kind |-> "none", val |-> JsUndefined]

\* the ttl arguments of a wait: 0 for a call that gives none
TtlValues == {0, 1}

IdleWaiter ==
  [pc |-> "idle", ttl |-> 0, status |-> 0, listeners |-> {}, timer |-> FALSE,
   outcome |-> NoOutcome, settles |-> 0]

\* no Job object
Nothing == [Job(JsNull, DefaultOpts) EXCEPT !.has = FALSE]

NoRound == [pc |-> "none", job |-> Nothing, json |-> EmptyHash, back |-> Nothing]

\* a caller that has asked nothing yet: pc is the read it makes next, first
\* the store as the first read of isWaiting found it while the second is
\* pending, seen the states the queries it has made so far answered true to
NotAsked == [pc |-> "wait", first |-> EmptyStore, seen |-> {}]

Init ==
  /\ store = EmptyStore
  /\ mem = [w \in Workers |-> NoJob]
  /\ calls = 0
  /\ now = 0
  /\ closing = FALSE
  /\ waiter = IdleWaiter
  /\ thrown = NoError
  /\ round = NoRound
  /\ asked = NotAsked

Min(a, b) == IF a < b THEN a ELSE b
Max(a, b) == IF a > b THEN a ELSE b

----------------------------------------------------------------------------
(* Job.create, Job.fromId and the worker's claim of the next job *)

create(data, opts) ==
  /\ store.ids = 0
  /\ store' = addJob(store, toJSON(Job(data, opts)))
  /\ UNCHANGED <<mem, calls, now, closing, waiter>>

\* the object Job.fromId yields for the job's key
fromId(s) ==
  IF isEmpty(s.rec) THEN [Job(JsNull, DefaultOpts) EXCEPT !.has = FALSE]
  ELSE fromJSON(s.rec)

fetch(w) ==
  /\ store.ids > 0
  /\ mem' = [mem EXCEPT ![w] = held(fromId(store))]
  /\ UNCHANGED <<store, calls, now, closing, waiter>>

\* a worker takes the waiting job: wait -> active under the worker's lock
getNextJob(w) ==
  /\ "wait" \in store.coll
  /\ ~isEmpty(store.rec)
  /\ store' = [store EXCEPT !.coll = {"active"}, !.lock = w]
  /\ mem' = [mem EXCEPT ![w] = held(fromJSON(store.rec))]
  /\ UNCHANGED <<calls, now, closing, waiter>>

\* a delayed job whose time has come goes back to wait
promote ==
  /\ "delayed" \in store.coll
  /\ store' = [store EXCEPT !.coll = {"wait"}]
  /\ now' = Max(now, store.score)
  /\ UNCHANGED <<mem, calls, closing, waiter>>

----------------------------------------------------------------------------
(* Job.update, Job.updateProgress and Job.remove *)

update(w, data) ==
  /\ mem[w].has
  /\ store' = [store EXCEPT !.rec = hset(@, "data", JSONstringify(data))]
  /\ UNCHANGED <<mem, calls, now, closing, waiter>>

\* Scripts.updateProgress: the progress field of the record is overwritten
\* with the JSON text of the value
progressUpdate(s, progress) ==
  [s EXCEPT !.rec = hset(@, "progress", JsStr(JSONstringify(progress)))]

\* the object's progress is set and the script called with the value; the
\* progress of the object is among the fields no later call on it reads
updateProgress(w, progress) ==
  /\ mem[w].has
  /\ store' = progressUpdate(store, progress)
  /\ UNCHANGED <<mem, calls, now, closing, waiter>>

remove(w) ==
  /\ mem[w].has
  /\ store' = removeJob(store, w).store
  /\ UNCHANGED <<mem, calls, now, closing, waiter>>

\* what the remove call ends with
removeThrows(w) ==
  IF removeJob(store, w).code = 1 THEN NoError ELSE RemovalFailed(store.ids)

----------------------------------------------------------------------------
(* Job.moveToCompleted *)

\* the default of the ignoreLock parameter
ignoreLockDefault == TRUE

ignoreLockOf(arg) == IF arg = "omitted" THEN ignoreLockDefault ELSE arg = "true"

\* Scripts.moveToCompleted with the serialized value
scriptMoveToCompleted(w, returnValue, arg) ==
  moveToFinished(store, "completed", "returnvalue", JSONstringify(returnValue),
                 mem[w].opts.removeOnComplete, w, ignoreLockOf(arg))

\* moveToCompleted that hands the value to the script before serializing it
moveToCompleted_scriptFirst(w, returnValue, arg) ==
  /\ mem[w].has
  /\ store' = scriptMoveToCompleted(w, returnValue, arg).store
  /\ UNCHANGED <<mem, calls, now, closing, waiter>>

moveToCompleted(w, returnValue, arg) ==
  /\ mem[w].has
  /\ store' = IF stringifyThrows(returnValue) THEN store
              ELSE scriptMoveToCompleted(w, returnValue, arg).store
  /\ UNCHANGED <<mem, calls, now, closing, waiter>>

\* what the moveToCompleted call ends with: the TypeError of JSON.stringify,
\* or the script's error for a negative result code
moveToCompletedThrows(w, returnValue, arg) ==
  IF stringifyThrows(returnValue) THEN TypeError
  ELSE LET code == scriptMoveToCompleted(w, returnValue, arg).code
       IN IF code < 0 THEN finishedErrors(code, store.ids, "finished")
          ELSE NoError

----------------------------------------------------------------------------
(* Job.moveToFailed *)

\* saveAttempt: the object after the attempt is recorded, and the params of
\* the hmset put in the multi
saveAttempt(j, err) ==
  LET attemptsMade == j.attemptsMade + 1
      prior == IF j.stacktrace.t = "null" THEN <<>> ELSE j.stacktrace.v
      limit == j.opts.stackTraceLimit
      kept == IF limit # 0 THEN SubSeq(prior, 1, Min(limit - 1, Len(prior)))
              ELSE prior
  IN [job |-> [j EXCEPT !.attemptsMade = attemptsMade,
                        !.stacktrace = Traces(Append(kept, ErrStack(err)))],
      params |-> [attemptsMade |-> NumStr(attemptsMade),
                  stacktrace |-> StringifyTraces(kept),
                  failedReason |-> ErrMessage(err)]]

hmset(h, params) ==
  hset(hset(hset(h, "attemptsMade", params.attemptsMade),
            "stacktrace", params.stacktrace),
       "failedReason", params.failedReason)

\* retryConsidered with an inclusive comparison of the attempts
retryConsidered_inclusive(j) == j.attemptsMade <= j.opts.attempts /\ ~j.discarded

\* whether the automatic retry is considered (and the backoff calculated)
retryConsidered(j) == j.attemptsMade < j.opts.attempts /\ ~j.discarded

\* movesOf without the test for STOP: -1 is taken for a delay
movesOf_stopAsDelay(considered, delay) ==
  IF considered
  THEN IF delay # 0 THEN <<"moveToDelayed">> ELSE <<"retryJob">>
  ELSE <<"moveToFinished">>

\* the moves moveToFailed appends to the multi after the hmset
movesOf(considered, delay) ==
  LET viaBackoff == IF considered /\ delay # STOP
                    THEN IF delay # 0 THEN <<"moveToDelayed">> ELSE <<"retryJob">>
                    ELSE <<>>
      moveToFailedFlag == ~considered \/ delay = STOP
  IN viaBackoff \o (IF moveToFailedFlag THEN <<"moveToFinished">> ELSE <<>>)

\* the value of `command` once the multi is built
commandOf(moves) ==
  IF moves = <<>> THEN ""
  ELSE CASE moves[Len(moves)] = "moveToDelayed" -> "delayed"
         [] moves[Len(moves)] = "retryJob" -> "retry"
         [] OTHER -> "failed"

runMove(s, cmd, ctx) ==
  CASE cmd = "moveToDelayed" ->
         moveToDelayed(s, ctx.timestamp, ctx.token, ctx.ignoreLock)
    [] cmd = "retryJob" -> retryJob(s, ctx.token, ctx.ignoreLock)
    [] OTHER -> moveToFinished(s, "failed", "failedReason", ctx.message,
                               ctx.removeOnFail, ctx.token, ctx.ignoreLock)

\* multi.exec(): the queued commands run in order, none is undone; the
\* result is the last command's
RECURSIVE exec(_, _, _)
exec(s, cmds, ctx) ==
  IF cmds = <<>> THEN [code |-> 0, store |-> s]
  ELSE LET r == runMove(s, Head(cmds), ctx)
       IN IF Len(cmds) = 1 THEN r ELSE exec(r.store, Tail(cmds), ctx)

\* the delay the backoff calculator is asked for, when it is asked
delayOf(j, err) ==
  IF retryConsidered(j) THEN calculate(j.opts.backoff, j.attemptsMade, err) ELSE 0

\* multiOf whose branch for STOP queues no move at all
multiOf_stopQueuesNothing(j, err) ==
  <<"hmset">> \o (IF retryConsidered(j) /\ delayOf(j, err) = STOP THEN <<>>
                   ELSE movesOf(retryConsidered(j), delayOf(j, err)))

\* the multi moveToFailed builds for the object j it has recorded the attempt on
multiOf(j, err) == <<"hmset">> \o movesOf(retryConsidered(j), delayOf(j, err))

\* The object's discarded flag is read by moveToFailed alone, so the owner's
\* marking of the object is taken at the call: discard tells whether the
\* object was marked since the last call on it.
moveToFailed(w, err, arg, discard) ==
  /\ mem[w].has
  /\ calls < MaxCalls
  /\ LET saved == saveAttempt([mem[w] EXCEPT !.discarded = @ \/ discard], err)
         j == saved.job
         multi == multiOf(j, err)
         ctx == [timestamp |-> now + delayOf(j, err), token |-> w,
                 ignoreLock |-> ignoreLockOf(arg), message |-> ErrMessage(err),
                 removeOnFail |-> j.opts.removeOnFail]
         recorded == [store EXCEPT !.rec = hmset(@, saved.params)]
         res == exec(recorded, Tail(multi), ctx)
     IN /\ mem' = [mem EXCEPT ![w] = j]
        /\ store' = res.store
  /\ calls' = calls + 1
  /\ UNCHANGED <<now, closing, waiter>>

\* the last result of multi.exec() of the call, and the value of `command`
batchOf(w, err, arg, discard) ==
  LET saved == saveAttempt([mem[w] EXCEPT !.discarded = @ \/ discard], err)
      j == saved.job
      multi == multiOf(j, err)
      ctx == [timestamp |-> now + delayOf(j, err), token |-> w,
              ignoreLock |-> ignoreLockOf(arg), message |-> ErrMessage(err),
              removeOnFail |-> j.opts.removeOnFail]
      recorded == [store EXCEPT !.rec = hmset(@, saved.params)]
  IN [code |-> exec(recorded, Tail(multi), ctx).code,
      command |-> commandOf(Tail(multi))]

\* moveToFailedThrows that takes a result code of 0 for a failure too
moveToFailedThrows_nonPositive(w, err, arg, discard) ==
  LET batch == batchOf(w, err, arg, discard)
  IN IF batch.code <= 0 THEN finishedErrors(batch.code, store.ids, batch.command)
     ELSE NoError

\* what the moveToFailed call ends with: the code of the last result is
\* inspected and a negative one thrown as finishedErrors(code, id, command)
moveToFailedThrows(w, err, arg, discard) ==
  LET batch == batchOf(w, err, arg, discard)
  IN IF batch.code < 0 THEN finishedErrors(batch.code, store.ids, batch.command)
     ELSE NoError

----------------------------------------------------------------------------
(* Job.waitUntilFinished *)

MaxSettles == 2

\* resolve or reject is called on the wait's promise
settle(wt, kind, val) ==
  [wt EXCEPT !.pc = "settled",
             !.outcome = IF @.kind = "none" THEN [kind |-> kind, val |-> val] ELSE @,
             !.settles = Min(@ + 1, MaxSettles)]

\* removeListeners that leaves the interval running
removeListeners_keepsTimer(wt) == [wt EXCEPT !.listeners = {}]

removeListeners(wt) == [wt EXCEPT !.timer = FALSE, !.listeners = {}]

\* the call with its ttl argument, and the status poll: Scripts.isFinished
\* answers from the store
waitPoll(ttl) ==
  /\ waiter.pc = "idle"
  /\ store.ids > 0
  /\ waiter' = [waiter EXCEPT !.pc = "polled", !.ttl = ttl,
                              !.status = isFinished(store)]
  /\ UNCHANGED <<store, mem, calls, now, closing>>

\* finished at the poll: the record is fetched again and the outcome read off it
waitFetch ==
  /\ waiter.pc = "polled"
  /\ waiter.status > 0
  /\ LET fetched == fromId(store)
     IN waiter' = IF ~fetched.has THEN settle(waiter, "TypeError", JsUndefined)
                  ELSE IF waiter.status = 2
                       THEN settle(waiter, "JobFailed", fetched.failedReason)
                       ELSE settle(waiter, "value", fetched.returnvalue)
  /\ UNCHANGED <<store, mem, calls, now, closing>>

\* not finished at the poll: both listeners are registered, the watchdog started
waitSubscribe ==
  /\ waiter.pc = "polled"
  /\ waiter.status = 0
  /\ waiter' = [waiter EXCEPT !.pc = "listening",
                              !.listeners = {"completed", "failed"},
                              !.timer = TRUE]
  /\ UNCHANGED <<store, mem, calls, now, closing>>

onCompleted(wt, args) ==
  removeListeners(settle(wt, "value", getReturnValue(args.payload)))

onFailed(wt, args) ==
  removeListeners(settle(wt, "JobFailed", JsStr(args.payload)))

\* the emitter hands the next notification to the listener of its event, if any
deliver ==
  /\ store.events # <<>>
  /\ LET args == Head(store.events)
     IN waiter' = IF args.kind \notin waiter.listeners THEN waiter
                  ELSE IF args.kind = "completed" THEN onCompleted(waiter, args)
                  ELSE onFailed(waiter, args)
  /\ store' = [store EXCEPT !.events = Tail(@)]
  /\ UNCHANGED <<mem, calls, now, closing>>

\* a watchdog that abandons the wait once its ttl has passed as well
watchdog_ttl ==
  /\ waiter.timer
  /\ closing \/ (waiter.ttl > 0 /\ now >= waiter.ttl)
  /\ waiter' = settle(removeListeners(waiter),
                      IF closing THEN "QueueClosing" ELSE "Timeout", JsUndefined)
  /\ UNCHANGED <<store, mem, calls, now, closing>>

\* one firing of the watchdog interval
watchdog ==
  /\ waiter.timer
  /\ closing
  /\ waiter' = settle(removeListeners(waiter), "QueueClosing", JsUndefined)
  /\ UNCHANGED <<store, mem, calls, now, closing>>

\* the queue starts to close
close ==
  /\ ~closing
  /\ closing' = TRUE
  /\ UNCHANGED <<store, mem, calls, now, waiter>>

----------------------------------------------------------------------------
(* A caller asking for the job's state: isWaiting, isActive, isDelayed,     *)
(* isCompleted and isFailed called one after the other.  Every read is a    *)
(* round trip to the store of its own, and the other processes run between  *)
(* one read and the next.                                                   *)

\* what the caller has seen once a query has answered
answer(seen, st, yes) == IF yes THEN seen \cup {st} ELSE seen

\* isWaiting, first read: isInList('wait'); a job found there answers the
\* query, and the list of paused jobs is not read.  The caller starts over
\* with this read once the last query has answered.
readWait ==
  /\ asked.pc \in {"wait", "answered"}
  /\ asked' = IF isInList(store, "wait")
               THEN [pc |-> "active", first |-> EmptyStore,
                     seen |-> answer({}, "waiting", isWaiting(store, store))]
               ELSE [pc |-> "paused", first |-> store, seen |-> {}]
  /\ UNCHANGED <<store, mem, calls, now, closing, waiter>>

\* isWaiting, second read: isInList('paused')
readPaused ==
  /\ asked.pc = "paused"
  /\ asked' = [pc |-> "active", first |-> EmptyStore,
               seen |-> answer(asked.seen, "waiting",
                               isWaiting(asked.first, store))]
  /\ UNCHANGED <<store, mem, calls, now, closing, waiter>>

readActive ==
  /\ asked.pc = "active"
  /\ asked' = [asked EXCEPT !.pc = "delayed",
                            !.seen = answer(@, "active", isActive(store))]
  /\ UNCHANGED <<store, mem, calls, now, closing, waiter>>

readDelayed ==
  /\ asked.pc = "delayed"
  /\ asked' = [asked EXCEPT !.pc = "completed",
                            !.seen = answer(@, "delayed", isDelayed(store))]
  /\ UNCHANGED <<store, mem, calls, now, closing, waiter>>

readCompleted ==
  /\ asked.pc = "completed"
  /\ asked' = [asked EXCEPT !.pc = "failed",
                            !.seen = answer(@, "completed", isCompleted(store))]
  /\ UNCHANGED <<store, mem, calls, now, closing, waiter>>

readFailed ==
  /\ asked.pc = "failed"
  /\ asked' = [asked EXCEPT !.pc = "answered",
                            !.seen = answer(@, "failed", isFailed(store))]
  /\ UNCHANGED <<store, mem, calls, now, closing, waiter>>

----------------------------------------------------------------------------
(* toJSON and fromJSON applied one after the other to a Job object *)

\* the Job objects the calls leave in memory: data as the caller gave it,
\* progress as updateProgress set it, the stacktrace null on a new object and
\* an array after saveAttempt or fromJSON, returnvalue null or what
\* moveToCompleted set
RoundJobs ==
  {[Job(data, opts) EXCEPT !.progress = progress, !.stacktrace = stacktrace,
                           !.returnvalue = returnvalue] :
     data \in DataValues \cup {JsNum("0")},
     opts \in {DefaultOpts, [DefaultOpts EXCEPT !.attempts = MaxAttempts,
                                                !.backoff = [type |-> "fixed",
                                                             delay |-> 1]]},
     progress \in ProgressValues,
     stacktrace \in {NullTraces, Traces(<<>>), Traces(<<ErrStack("e1")>>)},
     returnvalue \in {JsNull} \cup ReturnValues}

RoundInit ==
  /\ store = EmptyStore
  /\ mem = [w \in Workers |-> NoJob]
  /\ calls = 0
  /\ now = 0
  /\ closing = FALSE
  /\ waiter = IdleWaiter
  /\ thrown = NoError
  /\ round \in {[NoRound EXCEPT !.pc = "object", !.job = j] : j \in RoundJobs}
  /\ asked = NotAsked

roundToJSON ==
  /\ round.pc = "object"
  /\ round' = [round EXCEPT !.pc = "json", !.json = toJSON(round.job)]
  /\ UNCHANGED <<store, mem, calls, now, closing, waiter, thrown, asked>>

roundFromJSON ==
  /\ round.pc = "json"
  /\ round' = [round EXCEPT !.pc = "read",
                            !.back = IF fromJSONThrows(round.json) THEN @
                                     ELSE fromJSON(round.json)]
  /\ thrown' = IF fromJSONThrows(round.json) THEN SyntaxError ELSE NoError
  /\ UNCHANGED <<store, mem, calls, now, closing, waiter, asked>>

----------------------------------------------------------------------------
(* Specification *)

\* the lifecycle under two processes: w1 takes the job as its worker, w2
\* holds it by id; either may call any operation on the object it holds.
\* The callers drop the errors their calls end with.
Next ==
  \/ \E data \in DataValues, opts \in JobOptions :
       create(data, opts) /\ UNCHANGED <<thrown, round, asked>>
  \/ fetch("w2") /\ UNCHANGED <<thrown, round, asked>>
  \/ getNextJob("w1") /\ UNCHANGED <<thrown, round, asked>>
  \/ promote /\ UNCHANGED <<thrown, round, asked>>
  \/ \E w \in Workers, data \in DataValues :
       update(w, data) /\ UNCHANGED <<thrown, round, asked>>
  \/ \E w \in Workers, progress \in ProgressValues :
       updateProgress(w, progress) /\ UNCHANGED <<thrown, round, asked>>
  \/ \E w \in Workers : remove(w) /\ UNCHANGED <<thrown, round, asked>>
  \/ \E w \in Workers, returnValue \in OneReturn, arg \in LockArgs :
       moveToCompleted(w, returnValue, arg) /\ UNCHANGED <<thrown, round, asked>>
  \/ \E w \in Workers, err \in OneError, arg \in LockArgs, discard \in BOOLEAN :
       moveToFailed(w, err, arg, discard) /\ UNCHANGED <<thrown, round, asked>>
  \/ deliver /\ UNCHANGED <<thrown, round, asked>>

Spec == Init /\ [][Next]_vars

\* the failures of a job that retries to its limit or not at all, under every
\* operation of the two processes; the record's data and progress, which no
\* move of the job reads, are written with one value each
FailOptions ==
  {o \in JobOptions : o.stackTraceLimit = 0 /\ o.attempts \in {0, MaxAttempts}}
CreatedData == {JsObj("{\"to\":\"a\"}")}
UpdatedData == {JsObj("{\"to\":\"b\"}")}
OneProgress == {JsNum("50")}

FailNext ==
  \/ \E data \in CreatedData, opts \in FailOptions :
       create(data, opts) /\ UNCHANGED <<thrown, round, asked>>
  \/ fetch("w2") /\ UNCHANGED <<thrown, round, asked>>
  \/ getNextJob("w1") /\ UNCHANGED <<thrown, round, asked>>
  \/ promote /\ UNCHANGED <<thrown, round, asked>>
  \/ \E w \in Workers, data \in UpdatedData :
       update(w, data) /\ UNCHANGED <<thrown, round, asked>>
  \/ \E w \in Workers, progress \in OneProgress :
       updateProgress(w, progress) /\ UNCHANGED <<thrown, round, asked>>
  \/ \E w \in Workers : remove(w) /\ UNCHANGED <<thrown, round, asked>>
  \/ \E w \in Workers, returnValue \in OneReturn, arg \in LockArgs :
       moveToCompleted(w, returnValue, arg) /\ UNCHANGED <<thrown, round, asked>>
  \/ \E w \in Workers, err \in OneError, arg \in LockArgs, discard \in BOOLEAN :
       moveToFailed(w, err, arg, discard) /\ UNCHANGED <<thrown, round, asked>>
  \/ deliver /\ UNCHANGED <<thrown, round, asked>>

FailSpec == Init /\ [][FailNext]_vars

\* the two processes at every operation while a caller asks for the job's
\* state; the job fails at once, retries at once or retries after a delay
ObserveOptions ==
  {o \in JobOptions : /\ o.stackTraceLimit = 0
                      /\ o.attempts \in {0, MaxAttempts}
                      /\ o.backoff.type \in {"none", "fixed"}
                      /\ ~(o.removeOnComplete \/ o.removeOnFail)}

ObserveNext ==
  \/ \E data \in CreatedData, opts \in ObserveOptions :
       create(data, opts) /\ UNCHANGED <<thrown, round, asked>>
  \/ fetch("w2") /\ UNCHANGED <<thrown, round, asked>>
  \/ getNextJob("w1") /\ UNCHANGED <<thrown, round, asked>>
  \/ promote /\ UNCHANGED <<thrown, round, asked>>
  \/ \E w \in Workers, data \in UpdatedData :
       update(w, data) /\ UNCHANGED <<thrown, round, asked>>
  \/ \E w \in Workers, progress \in OneProgress :
       updateProgress(w, progress) /\ UNCHANGED <<thrown, round, asked>>
  \/ \E w \in Workers : remove(w) /\ UNCHANGED <<thrown, round, asked>>
  \/ \E w \in Workers, returnValue \in OneReturn :
       moveToCompleted(w, returnValue, "omitted") /\ UNCHANGED <<thrown, round, asked>>
  \/ \E w \in Workers, err \in OneError :
       moveToFailed(w, err, "omitted", FALSE) /\ UNCHANGED <<thrown, round, asked>>
  \/ readWait /\ UNCHANGED <<thrown, round>>
  \/ readPaused /\ UNCHANGED <<thrown, round>>
  \/ readActive /\ UNCHANGED <<thrown, round>>
  \/ readDelayed /\ UNCHANGED <<thrown, round>>
  \/ readCompleted /\ UNCHANGED <<thrown, round>>
  \/ readFailed /\ UNCHANGED <<thrown, round>>

ObserveSpec == Init /\ [][ObserveNext]_vars

\* a wait for the job while one worker processes it
WaitOptions ==
  {o \in JobOptions : /\ o.attempts \in {0, 2}
                      /\ o.backoff.type \in {"none", "fixed"}
                      /\ o.stackTraceLimit = 0}

WaitNext ==
  \/ \E data \in DataValues, opts \in WaitOptions :
       create(data, opts) /\ UNCHANGED <<thrown, round, asked>>
  \/ getNextJob("w1") /\ UNCHANGED <<thrown, round, asked>>
  \/ promote /\ UNCHANGED <<thrown, round, asked>>
  \/ remove("w1") /\ UNCHANGED <<thrown, round, asked>>
  \/ \E returnValue \in ReturnValues, arg \in LockArgs :
       moveToCompleted("w1", returnValue, arg) /\ UNCHANGED <<thrown, round, asked>>
  \/ \E err \in Errors, arg \in LockArgs :
       moveToFailed("w1", err, arg, FALSE) /\ UNCHANGED <<thrown, round, asked>>
  \/ \E ttl \in TtlValues : waitPoll(ttl) /\ UNCHANGED <<thrown, round, asked>>
  \/ waitFetch /\ UNCHANGED <<thrown, round, asked>>
  \/ waitSubscribe /\ UNCHANGED <<thrown, round, asked>>
  \/ deliver /\ UNCHANGED <<thrown, round, asked>>
  \/ watchdog /\ UNCHANGED <<thrown, round, asked>>
  \/ close /\ UNCHANGED <<thrown, round, asked>>

WaitSpec == Init /\ [][WaitNext]_vars

\* the wait under the scheduling the runtime guarantees: a continuation that
\* can run does run, a notification in flight is delivered, a due timer fires
FairWaitSpec ==
  /\ WaitSpec
  /\ WF_vars(waitFetch /\ UNCHANGED <<thrown, round, asked>>)
  /\ WF_vars(waitSubscribe /\ UNCHANGED <<thrown, round, asked>>)
  /\ WF_vars(deliver /\ UNCHANGED <<thrown, round, asked>>)
  /\ WF_vars(watchdog /\ UNCHANGED <<thrown, round, asked>>)

\* the calls of the two processes with what each call ends with kept by its
\* caller: thrown is the error of the call just made, NoError after a call
\* that returned or a step that is no call
CallOptions ==
  {o \in JobOptions : /\ o.stackTraceLimit = 0
                      /\ o.backoff.type \in {"none", "fixed", "stopper"}
                      /\ o.attempts \in {0, MaxAttempts}}

CallNext ==
  \/ \E data \in DataValues, opts \in CallOptions :
       create(data, opts) /\ thrown' = NoError /\ UNCHANGED <<round, asked>>
  \/ fetch("w2") /\ thrown' = NoError /\ UNCHANGED <<round, asked>>
  \/ getNextJob("w1") /\ thrown' = NoError /\ UNCHANGED <<round, asked>>
  \/ promote /\ thrown' = NoError /\ UNCHANGED <<round, asked>>
  \/ \E w \in Workers :
       remove(w) /\ thrown' = removeThrows(w) /\ UNCHANGED <<round, asked>>
  \/ \E w \in Workers, returnValue \in OneReturn \cup Unserializable,
          arg \in LockArgs :
       /\ moveToCompleted(w, returnValue, arg)
       /\ thrown' = moveToCompletedThrows(w, returnValue, arg)
       /\ UNCHANGED <<round, asked>>
  \/ \E w \in Workers, err \in OneError, arg \in LockArgs, discard \in BOOLEAN :
       /\ moveToFailed(w, err, arg, discard)
       /\ thrown' = moveToFailedThrows(w, err, arg, discard)
       /\ UNCHANGED <<round, asked>>

CallSpec == Init /\ [][CallNext]_vars

\* repeated failures of the job recorded on one Job object: whichever
\* process has the job active, a holder of the object fails it while it is
\* active
TraceNext ==
  \/ \E data \in DataValues, opts \in TraceOptions :
       create(data, opts) /\ UNCHANGED <<thrown, round, asked>>
  \/ \E w \in Workers : getNextJob(w) /\ UNCHANGED <<thrown, round, asked>>
  \/ \E w \in Workers, err \in Errors :
       /\ isActive(store)
       /\ moveToFailed(w, err, "omitted", FALSE)
       /\ UNCHANGED <<thrown, round, asked>>

TraceSpec == Init /\ [][TraceNext]_vars

\* a Job object serialized and read back
RoundNext ==
  \/ roundToJSON
  \/ roundFromJSON

RoundSpec == RoundInit /\ [][RoundNext]_vars

----------------------------------------------------------------------------
(* Properties *)

\* the attemptsMade the store holds for the job
persistedAttempts == parseInt(hget(store.rec, "attemptsMade"))

\* the options the store holds for the job
persistedOpts == parseOpts(hget(store.rec, "opts"))

\* the lock check of the scripts lets caller w with this argument through
lockPasses(w, arg) == ignoreLockOf(arg) \/ store.lock = w

\* C1: with options.attempts = n >= 1, a fixed backoff of delay d > 0 and no
\* discard, the k-th of n consecutive moveToFailed calls on the active job
\* leaves attemptsMade = k in memory and in the store; for k < n the job is
\* then delayed with a score of at least d past the call, and for k = n it is
\* failed with failedReason set.
C1_AttemptAccounting ==
  [][calls' = calls + 1 =>
       \A w \in Workers, err \in OneError, arg \in LockArgs :
         LET o == mem[w].opts
             k == mem[w].attemptsMade + 1
         IN (/\ ~mem[w].discarded
             /\ o.attempts >= 1
             /\ o.backoff.type = "fixed"
             /\ o.backoff.delay > 0
             /\ ~o.removeOnFail
             /\ mem[w].attemptsMade = calls
             /\ "active" \in store.coll
             /\ lockPasses(w, arg)
             /\ moveToFailed(w, err, arg, FALSE))
            => /\ mem'[w].attemptsMade = calls'
               /\ parseInt(hget(store'.rec, "attemptsMade")) = calls'
               /\ (k < o.attempts) => /\ store'.coll = {"delayed"}
                                      /\ store'.score >= now + o.backoff.delay
               /\ (k = o.attempts) => /\ store'.coll = {"failed"}
                                      /\ "failedReason" \in store'.rec.has
                                      /\ store'.rec.failedReason = ErrMessage(err)
  ]_vars

\* the second of two consecutive failures of a job with attempts = 2 and a
\* fixed backoff has moved it to failed, after a promotion in between
C1_Witness ==
  /\ store.coll = {"failed"}
  /\ calls = 2
  /\ persistedAttempts = 2
  /\ "opts" \in store.rec.has
  /\ persistedOpts.attempts = 2
  /\ persistedOpts.backoff.type = "fixed"
  /\ now > 0

\* C2: the move of a moveToFailed call is decided by attemptsMade (after the
\* attempt is recorded), options.attempts, discarded and the calculated delay:
\* attempts left and not discarded gives finish on STOP, move-to-delayed at
\* now + delay on a positive delay and retry on delay 0; attempts exhausted or
\* discarded gives finish whatever the calculator would answer.
C2_MoveDecision ==
  [][calls' = calls + 1 =>
       \A w \in Workers, err \in OneError, arg \in LockArgs, discard \in BOOLEAN :
         LET j == mem'[w]
             retry == j.attemptsMade < j.opts.attempts /\ ~j.discarded
             delay == calculate(j.opts.backoff, j.attemptsMade, err)
             expected == IF ~retry \/ delay = STOP THEN "moveToFinished"
                         ELSE IF delay > 0 THEN "moveToDelayed"
                         ELSE "retryJob"
             accepted == "active" \in store.coll /\ lockPasses(w, arg)
             decided ==
               /\ multiOf(j, err) = <<"hmset", expected>>
               /\ accepted =>
                    store'.coll = CASE expected = "moveToDelayed" -> {"delayed"}
                                    [] expected = "retryJob" -> {"wait"}
                                    [] OTHER -> IF j.opts.removeOnFail THEN {}
                                                ELSE {"failed"}
               /\ (accepted /\ expected = "moveToDelayed")
                    => store'.score = now + delay
         \* moveToFailed(w, err, arg, discard) => decided
         IN \/ mem'[w] = mem[w]
            \/ decided
            \/ ~moveToFailed(w, err, arg, discard)
  ]_vars

\* a discarded job with attempts = 2 is failed by its first failure
C2_Witness ==
  /\ store.coll = {"failed"}
  /\ calls = 1
  /\ \E w \in Workers : /\ mem[w].discarded
                        /\ mem[w].attemptsMade = 1
                        /\ mem[w].opts.attempts = 2

\* C3: attemptsMade of a job does not exceed options.attempts unless the job
\* was discarded, for every value of options.attempts and after any number
\* of moveToFailed calls; stated of a job in failed.
C3_AttemptsWithinLimit ==
  ("failed" \in store.coll /\ "opts" \in store.rec.has)
    => \/ persistedAttempts <= persistedOpts.attempts
       \/ \E w \in Workers : mem[w].discarded

\* C4: a moveToFailed call on the job that two failures have moved to failed
\* (attempts = 2, fixed backoff, a promotion between the failures, no discard)
\* submits nothing: the record and the collections stay as they were.
C4_NoCallOnFailedJob ==
  [][(/\ calls' = calls + 1
      /\ store.coll = {"failed"}
      /\ "opts" \in store.rec.has
      /\ persistedOpts.attempts = 2
      /\ persistedOpts.backoff.type = "fixed"
      /\ persistedAttempts = 2
      /\ now > 0
      /\ \A w \in Workers : ~mem[w].discarded)
     => (store'.rec = store.rec /\ store'.coll = store.coll)
  ]_vars

\* C5: the multi of every moveToFailed call is the hmset that records the
\* attempt followed by exactly one of moveToDelayed, retryJob, moveToFinished;
\* the attempt is recorded in the store and at most that one move takes effect.
C5_OneMovePerBatch ==
  [][calls' = calls + 1 =>
       \A w \in Workers, err \in OneError :
         LET multi == multiOf(mem'[w], err)
             oneMove ==
               /\ Len(multi) = 2
               /\ multi[1] = "hmset"
               /\ multi[2] \in {"moveToDelayed", "retryJob", "moveToFinished"}
               /\ \/ isEmpty(store'.rec)
                  \/ hget(store'.rec, "attemptsMade") = NumStr(mem'[w].attemptsMade)
               /\ (store'.coll # store.coll)
                    => /\ "active" \in store.coll
                       /\ store'.coll \in {{"delayed"}, {"wait"}, {"failed"}, {}}
         \* (a call moveToFailed(w, err, arg, discard) was made) => oneMove
         IN \/ mem'[w] = mem[w]
            \/ oneMove
            \/ ~\E arg \in LockArgs, discard \in BOOLEAN :
                  moveToFailed(w, err, arg, discard)
  ]_vars

\* a call whose calculator answered STOP with attempts left has failed the job
C5_Witness ==
  /\ calls = 1
  /\ store.coll = {"failed"}
  /\ "opts" \in store.rec.has
  /\ persistedOpts.backoff.type = "stopper"
  /\ persistedOpts.attempts = 2
  /\ persistedAttempts = 1

\* C6: after any interleaving of the processes' operations the job is a
\* member of at most one state collection, and a job that has a record is a
\* member of one.
C6_ExactlyOneState ==
  /\ Cardinality(store.coll) <= 1
  /\ ~isEmpty(store.rec) => store.coll # {}

\* C7: a moveToCompleted or moveToFailed call that passes no ignoreLock, made
\* by a process that does not hold the lock of the active job, leaves the job
\* active under its owner.
C7_LockVerifiedByDefault ==
  [][\A w \in Workers :
       (/\ "active" \in store.coll
        /\ store.lock # w
        /\ \/ \E returnValue \in ReturnValues : moveToCompleted(w, returnValue, "omitted")
           \/ \E err \in OneError, discard \in BOOLEAN :
                moveToFailed(w, err, "omitted", discard))
       => ("active" \in store'.coll /\ store'.lock = store.lock)
  ]_vars

\* the job is in completed or in failed
finishedInStore == store.coll \cap {"completed", "failed"} # {}

\* C8: whenever the job is finished while a wait for it is under way, the
\* wait eventually settles.
C8_WaitSettles ==
  (waiter.pc # "idle" /\ finishedInStore) ~> (waiter.pc = "settled")

\* C9: a wait whose poll found the job finished registers no listener and
\* starts no timer, and what it settles with is read off the record it
\* fetches: the decoded returnvalue for a completed job, an error with the
\* failedReason for a failed one.
C9_FinishedAtPoll ==
  /\ [](waiter.status > 0 => (waiter.listeners = {} /\ ~waiter.timer))
  /\ [][(waiter.pc = "polled" /\ waiter.status > 0 /\ waiter'.pc = "settled")
        => /\ (waiter.status = 1 /\ "returnvalue" \in store.rec.has)
                => /\ waiter'.outcome.kind = "value"
                   /\ JSONstringify(waiter'.outcome.val) = store.rec.returnvalue
           /\ (waiter.status = 2 /\ "failedReason" \in store.rec.has)
                => waiter'.outcome = [kind |-> "JobFailed",
                                      val |-> JsStr(store.rec.failedReason)]
     ]_vars

\* a wait called on the completed job has returned the stored returnvalue
C9_Witness ==
  /\ waiter.pc = "settled"
  /\ waiter.status = 1
  /\ waiter.outcome = [kind |-> "value", val |-> JsStr("ok")]
  /\ store.coll = {"completed"}
  /\ store.rec.returnvalue = "\"ok\""

\* C10: a wait that has ended holds no listener and no running timer, and
\* its promise was settled once.
C10_NoLeakOnExit ==
  /\ waiter.pc = "settled" => (waiter.listeners = {} /\ ~waiter.timer)
  /\ waiter.settles <= 1
  /\ waiter.pc = "settled" <=> waiter.settles = 1

\* a suspended wait was abandoned because the queue is closing
C10_Witness ==
  /\ waiter.pc = "settled"
  /\ waiter.outcome.kind = "QueueClosing"
  /\ waiter.status = 0
  /\ waiter.settles = 1

\* C11: a moveToFailed call whose move the store rejects (the job is not
\* active, or the lock is checked and is not the caller's) ends with a typed
\* error of a negative code that carries the job id and the name of the move
\* the call put in its multi (delayed, retry or failed); a call whose move is
\* accepted ends with no error.
C11_RejectionIsThrown ==
  [][calls' = calls + 1 =>
       \A w \in Workers, err \in OneError, arg \in LockArgs, discard \in BOOLEAN :
         LET move == multiOf(mem'[w], err)[2]
             attempted == CASE move = "moveToDelayed" -> "delayed"
                            [] move = "retryJob" -> "retry"
                            [] OTHER -> "failed"
             accepted == "active" \in store.coll /\ lockPasses(w, arg)
             surfaced ==
               /\ accepted => thrown' = NoError
               /\ ~accepted => /\ thrown'.kind \in {"NotFound", "LockMismatch",
                                                     "NotActive"}
                                /\ thrown'.code < 0
                                /\ thrown'.jobId = store.ids
                                /\ thrown'.command = attempted
         \* (moveToFailed(w, err, arg, discard) ended with thrown') => surfaced
         IN \/ mem'[w] = mem[w]
            \/ surfaced
            \/ ~(/\ moveToFailed(w, err, arg, discard)
                 /\ thrown' = moveToFailedThrows(w, err, arg, discard))
  ]_vars

\* a call that asked for the lock check on a job another process holds, and
\* had put a move to delayed in its multi, has ended with the typed error
C11_Witness ==
  /\ thrown = finishedErrors(-2, 1, "delayed")
  /\ store.coll = {"active"}
  /\ store.lock = "w1"
  /\ mem["w2"].attemptsMade = 1

\* the last n entries of q
LastN(q, n) == SubSeq(q, Max(1, Len(q) - n + 1), Len(q))

\* C12: with stackTraceLimit = L >= 1, a failure recorded on a Job object
\* leaves it the L most recent traces, oldest first: the traces it held
\* followed by the new one, cut from the front to L entries.
C12_KeepsMostRecent ==
  [][calls' = calls + 1 =>
       \A w \in Workers, err \in Errors :
         LET limit == mem[w].opts.stackTraceLimit
             prior == IF mem[w].stacktrace.t = "null" THEN <<>>
                      ELSE mem[w].stacktrace.v
         IN (/\ limit >= 1
             /\ Len(prior) <= limit
             /\ moveToFailed(w, err, "omitted", FALSE))
            => mem'[w].stacktrace.v = LastN(Append(prior, ErrStack(err)), limit)
  ]_vars

\* C13: a moveToCompleted call whose return value JSON.stringify throws on
\* ends with that error and issues nothing to the store: the record, the
\* collections (the job stays active), the lock and the notifications are as
\* before the call, and no job is taken from the queue.
C13_SerializationFailureCommitsNothing ==
  [][\A w \in Workers, returnValue \in Unserializable, arg \in LockArgs :
       (/\ moveToCompleted(w, returnValue, arg)
        /\ thrown' = moveToCompletedThrows(w, returnValue, arg))
       => /\ thrown' = TypeError
          /\ store' = store
          /\ isActive(store) => (isActive(store') /\ store'.lock = store.lock)
          /\ mem' = mem
  ]_vars

\* the worker's moveToCompleted with a circular value has thrown, and the
\* job is still active under the worker's lock with no returnvalue stored
C13_Witness ==
  /\ thrown = TypeError
  /\ store.coll = {"active"}
  /\ store.lock = "w1"
  /\ store.events = NoEvents
  /\ hget(store.rec, "returnvalue") = "null"

\* C14: a Job object serialized by toJSON and read back by fromJSON has the
\* data, options, progress, stacktrace and returnvalue it had, whatever the
\* values of those fields, and the reading does not throw.
C14_RoundTrip ==
  round.pc = "read"
    => /\ thrown = NoError
       /\ round.back.has
       /\ round.back.data = round.job.data
       /\ round.back.opts = round.job.opts
       /\ round.back.progress = round.job.progress
       /\ round.back.stacktrace = round.job.stacktrace
       /\ round.back.returnvalue = round.job.returnvalue

\* C15: the hmset that records the attempt and the move of a moveToFailed
\* call are applied together or not at all: a call that ends with the error
\* of a rejected move (a negative result code) has left the job's record and
\* its collections as they were.
C15_BatchAllOrNothing ==
  [][(calls' = calls + 1 /\ thrown'.code < 0)
       => (store'.rec = store.rec /\ store'.coll = store.coll)
  ]_vars

\* C16: attemptsMade is incremented once per failure recorded, whichever
\* process records it from whichever snapshot, so that the persisted count
\* is the number of moveToFailed calls made on the job.  Stated of the second
\* call: the one call made before it was accepted (it delayed the job, which
\* has been promoted and taken again) and left the count at 1; the second
\* call, accepted as well, leaves it at 2.
C16_OneIncrementPerFailure ==
  [][(/\ calls = 1
      /\ calls' = 2
      /\ now > 0
      /\ persistedAttempts = 1
      /\ isActive(store)
      /\ store'.coll # store.coll
      /\ ~isEmpty(store'.rec))
       => parseInt(hget(store'.rec, "attemptsMade")) = 2
  ]_vars

\* C17: a wait suspended on the notifications ends by the completed
\* notification of the job, by its failed notification, or by a firing of the
\* watchdog that finds the queue closing, and by nothing else: whatever its
\* ttl and however long it lasts, it stays suspended while the queue is not
\* closing and no notification is delivered.  Once the queue is closing the
\* suspended wait does end, and a firing of the watchdog that finds it still
\* suspended rejects it with the queue-closing error.
C17_SuspendedWaitEnds ==
  /\ [][(waiter.pc = "listening" /\ waiter' # waiter)
        => \/ /\ store.events # <<>>
              /\ store'.events = Tail(store.events)
              /\ Head(store.events).kind = "completed"
              /\ waiter'.pc = "settled"
              /\ waiter'.outcome.kind = "value"
           \/ /\ store.events # <<>>
              /\ store'.events = Tail(store.events)
              /\ Head(store.events).kind = "failed"
              /\ waiter'.pc = "settled"
              /\ waiter'.outcome.kind = "JobFailed"
           \/ /\ closing
              /\ store' = store
              /\ waiter'.pc = "settled"
              /\ waiter'.outcome.kind = "QueueClosing"
     ]_vars
  /\ [][(waiter.pc = "listening" /\ ~closing /\ store.events = <<>>)
        => (waiter'.pc = "listening" /\ waiter'.timer)
     ]_vars
  /\ (waiter.pc = "listening" /\ closing) ~> (waiter.pc = "settled")

\* a wait called with a ttl stayed suspended past it (the job was delayed
\* and promoted meanwhile) and was ended by the closing of the queue
C17_Witness ==
  /\ waiter.pc = "settled"
  /\ waiter.outcome.kind = "QueueClosing"
  /\ waiter.ttl = 1
  /\ now >= 1
  /\ closing
  /\ store.events = NoEvents

\* C17 as first stated: whenever the queue is closing while the wait is
\* suspended (no notification being in flight then), the wait is eventually
\* rejected with the queue-closing error.
C17_ClosingAlwaysRejects ==
  (waiter.pc = "listening" /\ closing /\ store.events = NoEvents)
    ~> (waiter.pc = "settled" /\ waiter.outcome.kind = "QueueClosing")

\* C18: update writes the data field of the job's record and nothing else,
\* in whatever state the job is when the write lands: the collections, the
\* lock and the other fields stay, and a job that has been removed stays
\* removed (fromId still finds no record).
C18_UpdateWritesDataOnly ==
  [][\A w \in Workers, data \in DataValues :
       update(w, data)
         => /\ store'.coll = store.coll
            /\ store'.lock = store.lock
            /\ ~isEmpty(store.rec)
                 => store'.rec = [store.rec EXCEPT !.data = JSONstringify(data)]
            /\ ~fromId(store).has => ~fromId(store').has
  ]_vars

\* C19: the stacktrace a moveToFailed call persists is the one the object
\* holds once the new trace is appended: read back with fromId right after
\* the call, it is the object's stacktrace and it ends with the trace of the
\* failure just recorded.
C19_PersistsNewTrace ==
  [][\A w \in Workers, err \in Errors :
       (isActive(store) /\ moveToFailed(w, err, "omitted", FALSE))
         => LET read == fromId(store').stacktrace.v
            IN /\ read = mem'[w].stacktrace.v
               /\ read # <<>>
               /\ read[Len(read)] = ErrStack(err)
  ]_vars

\* C20: what a wait ends with is a return value, a JobFailed error with the
\* failure message, the queue-closing error or a readiness error, and no
\* other fault, also when the job is removed between the status poll that
\* found it finished and the fetch of its record.
C20_WaiterOutcomes ==
  /\ waiter.outcome.kind
       \in {"none", "value", "JobFailed", "QueueClosing", "NotReady"}
  /\ waiter.pc = "settled" => waiter.outcome.kind # "none"
  /\ waiter.outcome.kind = "JobFailed" => waiter.outcome.val.t = "string"

====
